---- MODULE Spec2Model ----
(***************************************************************************)
(* Sensor evaluation layer of MJX (mjx/_src/sensor.py): the three stage    *)
(* functions sensor_pos, sensor_vel and sensor_acc, which read the static  *)
(* sensor descriptors of a Model and the kinematic state of a Data and     *)
(* scatter the sensor values into Data.sensordata.                         *)
(*                                                                         *)
(* Numbers.  Floating point values are modelled by integers; a quotient    *)
(* is kept as the pair <<numerator, denominator>>, so every entry of the   *)
(* sensor buffer is such a pair (Q(n) = <<n, 1>> for a plain number).      *)
(* Lengths are counted in units of mjMINVAL / 2, which makes a non-zero    *)
(* length smaller than mjMINVAL representable.                             *)
(***************************************************************************)
EXTENDS Integers, Sequences, FiniteSets, TLC

VARIABLES m, d, d0, status, called, last, prev, written, scat

vars == <<m, d, d0, status, called, last, prev, written, scat>>

(***************************************************************************)
(* Bounds of the model.                                                    *)
(***************************************************************************)
\* largest number of sensors a model declares
MaxSensors == 3

\* mujoco.mjMINVAL, in the length unit of the model (mjMINVAL / 2)
mjMINVAL == 2

(***************************************************************************)
(* Sequences.                                                              *)
(***************************************************************************)
RECURSIVE Asc(_)
\* the elements of a finite set of integers in ascending order
\* (the order in which a boolean mask selects)
Asc(S) ==
  IF S = {} THEN <<>>
  ELSE LET mn == CHOOSE x \in S : \A y \in S : x <= y
       IN  <<mn>> \o Asc(S \ {mn})

RECURSIVE Concat(_)
\* np.concatenate / jp.concatenate of a list of flat arrays
Concat(ss) ==
  IF ss = <<>> THEN <<>> ELSE Head(ss) \o Concat(Tail(ss))

RECURSIVE Distinct(_)
\* the distinct elements of a sequence (set(...)), by first occurrence
Distinct(s) ==
  IF s = <<>> THEN <<>>
  ELSE LET r == Distinct(SubSeq(s, 1, Len(s) - 1))
           x == s[Len(s)]
       IN  IF \E i \in 1..Len(r) : r[i] = x THEN r ELSE Append(r, x)

Range(s) == {s[i] : i \in 1..Len(s)}

\* array[i] for a 0-based index i, a negative index counting from the end
At0(arr, i) == IF i < 0 THEN arr[Len(arr) + 1 + i] ELSE arr[i + 1]

\* a plain number as a sensor value
Q(n) == <<n, 1>>

Abs(x) == IF x < 0 THEN -x ELSE x

\* the integer square root of a perfect square
ISqrt(n) == CHOOSE r \in 0..n : r * r = n

(***************************************************************************)
(* Arrays of rank 0, 1 or 2 with numpy's broadcasting: a shape (<<>>,      *)
(* <<3>> or <<3, 3>>) and the flat row-major data.                         *)
(***************************************************************************)
V3(v) == [shape |-> <<3>>, data |-> v]

M33(rows) == [shape |-> <<3, 3>>, data |-> rows[1] \o rows[2] \o rows[3]]

Rank(a) == Len(a.shape)

Size(shape) == IF shape = <<>> THEN 1 ELSE IF shape = <<3>> THEN 3 ELSE 9

\* the broadcast of two shapes among <<>>, <<3>>, <<3, 3>>
BShape(s1, s2) == IF Len(s1) >= Len(s2) THEN s1 ELSE s2

\* the k-th flat element of a broadcast to shape
Bc(a, shape, k) ==
  IF Rank(a) = 0 THEN a.data[1]
  ELSE IF a.shape = shape THEN a.data[k]
  ELSE a.data[((k - 1) % 3) + 1]

\* a - b
ArrSub(a, b) ==
  LET s == BShape(a.shape, b.shape)
  IN  [shape |-> s, data |-> [k \in 1..Size(s) |-> Bc(a, s, k) - Bc(b, s, k)]]

\* a.T
ArrT(a) ==
  IF Rank(a) = 2
  THEN [shape |-> <<3, 3>>,
        data |-> [k \in 1..9 |-> a.data[((k - 1) % 3) * 3 + ((k - 1) \div 3) + 1]]]
  ELSE a

\* a @ b
ArrMatMul(a, b) ==
  LET A(i, j) == a.data[(i - 1) * 3 + j]
      B(i, j) == b.data[(i - 1) * 3 + j]
  IN  CASE Rank(a) = 2 /\ Rank(b) = 1 ->
             V3([i \in 1..3 |-> A(i, 1) * b.data[1] + A(i, 2) * b.data[2] + A(i, 3) * b.data[3]])
        [] Rank(a) = 1 /\ Rank(b) = 2 ->
             V3([j \in 1..3 |-> a.data[1] * B(1, j) + a.data[2] * B(2, j) + a.data[3] * B(3, j)])
        [] Rank(a) = 1 /\ Rank(b) = 1 ->
             [shape |-> <<>>,
              data |-> <<a.data[1] * b.data[1] + a.data[2] * b.data[2] + a.data[3] * b.data[3]>>]
        [] OTHER ->
             [shape |-> <<3, 3>>,
              data |-> [k \in 1..9 |->
                 A(((k - 1) \div 3) + 1, 1) * B(1, ((k - 1) % 3) + 1)
               + A(((k - 1) \div 3) + 1, 2) * B(2, ((k - 1) % 3) + 1)
               + A(((k - 1) \div 3) + 1, 3) * B(3, ((k - 1) % 3) + 1)]]

\* jp.where(c, a, b)
ArrWhere(c, a, b) ==
  LET s == BShape(a.shape, b.shape)
  IN  [shape |-> s,
       data |-> [k \in 1..Size(s) |-> IF c THEN Bc(a, s, k) ELSE Bc(b, s, k)]]

\* a[:, k] of a matrix, k counted from 0
ArrCol(a, k) == V3(<<a.data[k + 1], a.data[3 + k + 1], a.data[6 + k + 1]>>)

\* the values of an array as sensor values, flattened (reshape(-1))
Flat(a) == [k \in 1..Len(a.data) |-> Q(a.data[k])]

(***************************************************************************)
(* Tags.  SensorType and ObjType are enumerations; the model names their   *)
(* members.  TOUCH and VELOCIMETER are sensor types no stage function has  *)
(* a kernel for; JOINT and ACTUATOR are object types outside the types a   *)
(* frame sensor can resolve.                                               *)
(***************************************************************************)
Stages == {"POS", "VEL", "ACC"}

\* the declared width of a sensor of a type (Model.sensor_dim)
SensorDim(t) ==
  CASE t \in {"BALLQUAT", "FRAMEQUAT"} -> 4
    [] t \in {"MAGNETOMETER", "FRAMEPOS", "FRAMEXAXIS", "FRAMEYAXIS", "FRAMEZAXIS",
              "SUBTREECOM", "BALLANGVEL", "VELOCIMETER"} -> 3
    [] t = "CAMPROJECTION" -> 2
    [] OTHER -> 1

(***************************************************************************)
(* The sensor descriptors a model is built from.                           *)
(***************************************************************************)
SD(t, st, ot, oi, rt, ri) ==
  [type |-> t, needstage |-> st, objtype |-> ot, objid |-> oi, reftype |-> rt, refid |-> ri]

Catalogue ==
  << SD("FRAMEPOS",      "POS", "SITE",     1, "XBODY",   1),
     SD("JOINTPOS",      "POS", "JOINT",    0, "UNKNOWN", -1),
     SD("JOINTVEL",      "VEL", "JOINT",    0, "UNKNOWN", -1),
     SD("ACTUATORFRC",   "ACC", "ACTUATOR", 0, "UNKNOWN", -1),
     SD("FRAMEPOS",      "POS", "BODY",     0, "BODY",    0),
     SD("JOINTPOS",      "VEL", "JOINT",    1, "UNKNOWN", -1),
     SD("TOUCH",         "ACC", "SITE",     0, "UNKNOWN", -1),
     SD("FRAMEPOS",      "POS", "BODY",     1, "UNKNOWN", -1),
     SD("CAMPROJECTION", "POS", "SITE",     0, "CAMERA",  0),
     SD("RANGEFINDER",   "POS", "SITE",     0, "UNKNOWN", -1),
     SD("FRAMEQUAT",     "POS", "GEOM",     0, "CAMERA",  1),
     SD("FRAMEPOS",      "POS", "JOINT",    0, "UNKNOWN", -1),
     SD("BALLANGVEL",    "VEL", "JOINT",    1, "UNKNOWN", -1),
     SD("CAMPROJECTION", "POS", "SITE",     0, "CAMERA",  1),
     SD("RANGEFINDER",   "POS", "SITE",     1, "UNKNOWN", -1),
     SD("JOINTACTFRC",   "ACC", "JOINT",    1, "UNKNOWN", -1),
     SD("FRAMEQUAT",     "POS", "XBODY",    1, "JOINT",   -1),
     SD("FRAMEZAXIS",    "POS", "SITE",     0, "BODY",    1),
     SD("BALLQUAT",      "POS", "JOINT",    1, "UNKNOWN", -1),
     SD("VELOCIMETER",   "VEL", "SITE",     1, "UNKNOWN", -1),
     SD("MAGNETOMETER",  "POS", "SITE",     1, "UNKNOWN", -1),
     SD("FRAMEPOS",      "POS", "GEOM",     0, "SITE",    -1),
     SD("SUBTREECOM",    "POS", "BODY",     1, "UNKNOWN", -1),
     SD("ACTUATORVEL",   "VEL", "ACTUATOR", 0, "UNKNOWN", -1),
     SD("CLOCK",         "POS", "UNKNOWN",  -1, "UNKNOWN", -1),
     SD("FRAMEXAXIS",    "POS", "CAMERA",   0, "UNKNOWN", -1),
     SD("ACTUATORPOS",   "POS", "ACTUATOR", 0, "UNKNOWN", -1),
     SD("FRAMEYAXIS",    "POS", "GEOM",     0, "JOINT",   0),
     SD("CAMPROJECTION", "POS", "SITE",     1, "CAMERA",  1) >>

\* the catalogue entries start, start + stride, ... (n of them, wrapping around)
Pick(start, stride, n) ==
  [k \in 1..n |-> Catalogue[((start - 1 + (k - 1) * stride) % Len(Catalogue)) + 1]]

\* the base address of each sensor of a list laid out back to back
RECURSIVE Layout(_)
Layout(sens) ==
  IF sens = <<>> THEN <<>>
  ELSE LET r == Layout(SubSeq(sens, 1, Len(sens) - 1))
           n == Len(sens) - 1
       IN  Append(r, IF n = 0 THEN 0 ELSE r[n] + SensorDim(sens[n].type))

\* nsensordata: the length of the sensor buffer
NSensorData(sens) ==
  LET n == Len(sens) IN Layout(sens)[n] + SensorDim(sens[n].type)

Rz == <<<<0, -1, 0>>, <<1, 0, 0>>, <<0, 0, 1>>>>
Rx == <<<<1, 0, 0>>, <<0, 0, -1>>, <<0, 1, 0>>>>
Ry == <<<<0, 0, 1>>, <<0, 1, 0>>, <<-1, 0, 0>>>>
Id3 == <<<<1, 0, 0>>, <<0, 1, 0>>, <<0, 0, 1>>>>
Down == <<<<1, 0, 0>>, <<0, -1, 0>>, <<0, 0, -1>>>>

\* a Model: two bodies, a hinge joint and a ball joint, one actuator, one
\* geom, two sites, two cameras, and the sensors sens
MakeModel(sens, flags) ==
  [opt |-> [disableflags |-> flags, magnetic |-> <<1, -2, 3>>],
   sensor_type      |-> [i \in 1..Len(sens) |-> sens[i].type],
   sensor_needstage |-> [i \in 1..Len(sens) |-> sens[i].needstage],
   sensor_objtype   |-> [i \in 1..Len(sens) |-> sens[i].objtype],
   sensor_objid     |-> [i \in 1..Len(sens) |-> sens[i].objid],
   sensor_reftype   |-> [i \in 1..Len(sens) |-> sens[i].reftype],
   sensor_refid     |-> [i \in 1..Len(sens) |-> sens[i].refid],
   sensor_dim       |-> [i \in 1..Len(sens) |-> SensorDim(sens[i].type)],
   sensor_adr       |-> Layout(sens),
   jnt_qposadr |-> <<0, 1>>,
   jnt_dofadr  |-> <<0, 1>>,
   site_bodyid |-> <<0, 1>>,
   geom_bodyid |-> <<1>>,
   cam_bodyid  |-> <<0, 1>>,
   body_iquat  |-> <<<<1, 0, 0, 0>>, <<0, 0, 1, 0>>>>,
   geom_quat   |-> <<<<0, 1, 0, 0>>>>,
   site_quat   |-> <<<<0, 0, 0, 1>>, <<1, 0, 0, 0>>>>,
   cam_quat    |-> <<<<0, 0, 1, 0>>, <<0, -1, 0, 0>>>>,
   cam_sensorsize |-> <<<<0, 0>>, <<2, 2>>>>,
   cam_intrinsic  |-> <<<<0, 0, 0, 0>>, <<4, 8, 0, 0>>>>,
   cam_fovy       |-> <<90, 90>>,
   cam_resolution |-> <<<<4, 2>>, <<4, 4>>>>]

\* a Data of that model; sitez is the height of site 0, fill the value the
\* sensor buffer holds before the step
MakeData(sens, sitez, fill) ==
  [xipos     |-> <<<<1, 2, 3>>, <<-2, 0, 5>>>>,
   ximat     |-> <<Rz, Rx>>,
   xpos      |-> <<<<1, 1, 0>>, <<4, -1, 2>>>>,
   xmat      |-> <<Id3, Ry>>,
   xquat     |-> <<<<0, 0, 0, 1>>, <<0, 1, 0, 0>>>>,
   geom_xpos |-> <<<<3, 3, 3>>>>,
   geom_xmat |-> <<Rz>>,
   site_xpos |-> <<<<1, 2, sitez>>, <<2, 1, 4>>>>,
   site_xmat |-> <<Down, Ry>>,
   cam_xpos  |-> <<<<0, 0, 0>>, <<2, 1, 1>>>>,
   cam_xmat  |-> <<Id3, Rz>>,
   qpos      |-> <<sitez + 2, 0, 3, 4, 0>>,
   qvel      |-> <<1, 2, -3, 5>>,
   actuator_length   |-> <<6>>,
   actuator_velocity |-> <<-4>>,
   actuator_force    |-> <<8>>,
   qfrc_actuator     |-> <<7, -1, 0, 2>>,
   subtree_com       |-> <<<<2, 2, 2>>, <<-1, 0, 1>>>>,
   time       |-> 5 + fill,
   sensordata |-> [k \in 1..NSensorData(sens) |-> Q(fill)]]

(***************************************************************************)
(* Collaborators: mjx/_src/math.py and mjx/_src/ray.py.                    *)
(***************************************************************************)
\* math.quat_mul: the Hamilton product u * v
quat_mul(u, v) ==
  << u[1] * v[1] - u[2] * v[2] - u[3] * v[3] - u[4] * v[4],
     u[1] * v[2] + u[2] * v[1] + u[3] * v[4] - u[4] * v[3],
     u[1] * v[3] - u[2] * v[4] + u[3] * v[1] + u[4] * v[2],
     u[1] * v[4] + u[2] * v[3] - u[3] * v[2] + u[4] * v[1] >>

\* math.quat_inv: the conjugate
quat_inv(q) == <<q[1], -q[2], -q[3], -q[4]>>

\* math.normalize: x / |x|, and x itself when |x| = 0
normalize(x) ==
  LET n == ISqrt(x[1] * x[1] + x[2] * x[2] + x[3] * x[3] + x[4] * x[4])
  IN  [i \in 1..4 |-> <<x[i], IF n = 0 THEN 1 ELSE n>>]

\* ray.ray: the distance from pnt along vec to the nearest geom, -1 when no
\* geom is hit; the scene is the ground plane z = 0
ray(pnt, vec, bodyexclude) ==
  IF vec[3] < 0 /\ pnt[3] > 0 THEN Q(pnt[3] \div (-vec[3])) ELSE Q(-1)

(***************************************************************************)
(* sensor_pos.                                                             *)
(***************************************************************************)
\* arr[idx] for a boolean mask given as the ascending list of its indices
Take(arr, idx) == [k \in 1..Len(idx) |-> arr[idx[k]]]

\* (adr[:, None] + np.arange(w)[None]).reshape(-1)
Expand(adr, w) == Concat([k \in 1..Len(adr) |-> [j \in 1..w |-> adr[k] + j - 1]])

\* what one pass of a stage loop adds to the lists sensors and adrs, or raises
Added(adr, sensor) == [raised |-> FALSE, adrs |-> adr, sensors |-> sensor]

Raised == [raised |-> TRUE, adrs |-> <<>>, sensors |-> <<>>]

\* StageMask with the acceleration stage compared against the velocity stage
StageMaskCopied(mm, stage) ==
  Asc({i \in 1..Len(mm.sensor_type) :
         mm.sensor_needstage[i] = (IF stage = "ACC" THEN "VEL" ELSE stage)})

\* the sensors a stage selects: m.sensor_needstage == stage
StageMask(mm, stage) ==
  Asc({i \in 1..Len(mm.sensor_type) : mm.sensor_needstage[i] = stage})

\* idx = m.sensor_type == sensor_type
TypeMask(mm, sensor_type) ==
  Asc({i \in 1..Len(mm.sensor_type) : mm.sensor_type[i] = sensor_type})

\* position and orientation by object type
objtype_data(dd) ==
  [ot \in {"UNKNOWN", "BODY", "XBODY", "GEOM", "SITE", "CAMERA"} |->
     CASE ot = "UNKNOWN" -> << <<M33(Id3)>>, <<V3(<<0, 0, 0>>)>> >>
       [] ot = "BODY"    -> << [i \in 1..Len(dd.xipos) |-> V3(dd.xipos[i])],
                               [i \in 1..Len(dd.ximat) |-> M33(dd.ximat[i])] >>
       [] ot = "XBODY"   -> << [i \in 1..Len(dd.xpos) |-> V3(dd.xpos[i])],
                               [i \in 1..Len(dd.xmat) |-> M33(dd.xmat[i])] >>
       [] ot = "GEOM"    -> << [i \in 1..Len(dd.geom_xpos) |-> V3(dd.geom_xpos[i])],
                               [i \in 1..Len(dd.geom_xmat) |-> M33(dd.geom_xmat[i])] >>
       [] ot = "SITE"    -> << [i \in 1..Len(dd.site_xpos) |-> V3(dd.site_xpos[i])],
                               [i \in 1..Len(dd.site_xmat) |-> M33(dd.site_xmat[i])] >>
       [] ot = "CAMERA"  -> << [i \in 1..Len(dd.cam_xpos) |-> V3(dd.cam_xpos[i])],
                               [i \in 1..Len(dd.cam_xmat) |-> M33(dd.cam_xmat[i])] >>]

\* frame axis indexing
frame_axis == [t \in {"FRAMEXAXIS", "FRAMEYAXIS", "FRAMEZAXIS"} |->
                 CASE t = "FRAMEXAXIS" -> 0 [] t = "FRAMEYAXIS" -> 1 [] OTHER -> 2]

\* the (object type, reference type) pairs of a group: set(zip(objtype, reftype))
TypePairs(objtype, reftype) ==
  Distinct([k \in 1..Len(objtype) |-> <<objtype[k], reftype[k]>>])

\* PairMask selecting on the object type alone: idxt = objtype == ot
PairMaskObjOnly(objtype, reftype, pr) ==
  Asc({k \in 1..Len(objtype) : objtype[k] = pr[1]})

\* idxt = (objtype == ot) & (reftype == rt)
PairMask(objtype, reftype, pr) ==
  Asc({k \in 1..Len(objtype) : objtype[k] = pr[1] /\ reftype[k] = pr[2]})

\* avoid dividing by tiny numbers
ClampDenom(denom) ==
  LET Clip(x, lo, hi) == IF x < lo THEN lo ELSE IF x > hi THEN hi ELSE x
  IN  IF Abs(denom) < mjMINVAL THEN Clip(denom, -mjMINVAL, mjMINVAL) ELSE denom

\* tan(fovy * pi / 360) for the field of view the cameras of the model have
TanHalf(fovy) == CASE fovy = 90 -> 1

_cam_project(target_xpos, xpos, xmat, res, fovy, intrinsic, sensorsize, focal_flag) ==
  LET \* rotation @ translation @ pos_hom
      c  == ArrMatMul(ArrT(M33(xmat)), ArrSub(V3(target_xpos), V3(xpos))).data
      f  == (res[2] \div 2) \div TanHalf(fovy)
      fx == IF focal_flag THEN (intrinsic[1] \div (sensorsize[1] + mjMINVAL)) * res[1] ELSE f
      fy == IF focal_flag THEN (intrinsic[2] \div (sensorsize[2] + mjMINVAL)) * res[2] ELSE f
      \* image @ focal applied to c
      pixel_coord_hom == << (-fx) * c[1] + (res[1] \div 2) * c[3],
                            fy * c[2] + (res[2] \div 2) * c[3],
                            c[3] >>
      denom == ClampDenom(pixel_coord_hom[3])
  IN  << <<pixel_coord_hom[1], denom>>, <<pixel_coord_hom[2], denom>> >>

\* _framepos rotating by xmat_ref instead of its transpose
_frameposNoTranspose(xpos, xpos_ref, xmat_ref, refid) ==
  ArrWhere(refid = -1, xpos, ArrMatMul(xmat_ref, ArrSub(xpos, xpos_ref)))

_framepos(xpos, xpos_ref, xmat_ref, refid) ==
  ArrWhere(refid = -1, xpos, ArrMatMul(ArrT(xmat_ref), ArrSub(xpos, xpos_ref)))

_frameaxis(xmat, xmat_ref, refid, k) ==
  LET axis == ArrCol(xmat, k)
  IN  ArrWhere(refid = -1, axis, ArrMatMul(ArrT(xmat_ref), axis))

\* _quat taking an unknown object type for the world frame instead of raising
_quatLax(mm, dd, otype, oid) ==
  LET Got(qs) == [raised |-> FALSE, quat |-> qs]
  IN  CASE otype = "XBODY"  -> Got([k \in 1..Len(oid) |-> At0(dd.xquat, oid[k])])
        [] otype = "BODY"   -> Got([k \in 1..Len(oid) |->
                                 quat_mul(At0(dd.xquat, oid[k]), At0(mm.body_iquat, oid[k]))])
        [] otype = "GEOM"   -> Got([k \in 1..Len(oid) |->
                                 quat_mul(At0(dd.xquat, At0(mm.geom_bodyid, oid[k])),
                                          At0(mm.geom_quat, oid[k]))])
        [] otype = "SITE"   -> Got([k \in 1..Len(oid) |->
                                 quat_mul(At0(dd.xquat, At0(mm.site_bodyid, oid[k])),
                                          At0(mm.site_quat, oid[k]))])
        [] otype = "CAMERA" -> Got([k \in 1..Len(oid) |->
                                 quat_mul(At0(dd.xquat, At0(mm.cam_bodyid, oid[k])),
                                          At0(mm.cam_quat, oid[k]))])
        [] OTHER -> Got([k \in 1..Len(oid) |-> <<1, 0, 0, 0>>])

\* the orientation of the objects oid of type otype, or raised = TRUE for
\* the ValueError of an unknown object type
_quat(mm, dd, otype, oid) ==
  LET Got(qs) == [raised |-> FALSE, quat |-> qs]
  IN  CASE otype = "XBODY"  -> Got([k \in 1..Len(oid) |-> At0(dd.xquat, oid[k])])
        [] otype = "BODY"   -> Got([k \in 1..Len(oid) |->
                                 quat_mul(At0(dd.xquat, oid[k]), At0(mm.body_iquat, oid[k]))])
        [] otype = "GEOM"   -> Got([k \in 1..Len(oid) |->
                                 quat_mul(At0(dd.xquat, At0(mm.geom_bodyid, oid[k])),
                                          At0(mm.geom_quat, oid[k]))])
        [] otype = "SITE"   -> Got([k \in 1..Len(oid) |->
                                 quat_mul(At0(dd.xquat, At0(mm.site_bodyid, oid[k])),
                                          At0(mm.site_quat, oid[k]))])
        [] otype = "CAMERA" -> Got([k \in 1..Len(oid) |->
                                 quat_mul(At0(dd.xquat, At0(mm.cam_bodyid, oid[k])),
                                          At0(mm.cam_quat, oid[k]))])
        [] otype = "UNKNOWN" -> Got([k \in 1..Len(oid) |-> <<1, 0, 0, 0>>])
        [] OTHER -> [raised |-> TRUE, quat |-> <<>>]

\* the FRAMEPOS branch: one pass per (object type, reference type) pair
FramePosKernel(mm, dd, objtype, objid, reftype, refid, adr) ==
  LET prs == TypePairs(objtype, reftype)
      otd == objtype_data(dd)
      One(pr) ==
        LET idxt     == PairMask(objtype, reftype, pr)
            refidt   == Take(refid, idxt)
            oidt     == Take(objid, idxt)
            xpos     == [k \in 1..Len(idxt) |-> At0(otd[pr[1]][1], oidt[k])]
            xpos_ref == [k \in 1..Len(idxt) |-> At0(otd[pr[2]][1], refidt[k])]
            xmat_ref == [k \in 1..Len(idxt) |-> At0(otd[pr[2]][2], refidt[k])]
            sensor   == [k \in 1..Len(idxt) |->
                           _framepos(xpos[k], xpos_ref[k], xmat_ref[k], refidt[k])]
        IN  Added(Expand(Take(adr, idxt), 3),
                  Concat([k \in 1..Len(idxt) |-> Flat(sensor[k])]))
  IN  IF \E i \in 1..Len(prs) : prs[i][1] \notin DOMAIN otd \/ prs[i][2] \notin DOMAIN otd
      THEN Raised
      ELSE Added(Concat([i \in 1..Len(prs) |-> One(prs[i]).adrs]),
                 Concat([i \in 1..Len(prs) |-> One(prs[i]).sensors]))

\* the FRAMEXAXIS, FRAMEYAXIS, FRAMEZAXIS branch
FrameAxisKernel(mm, dd, sensor_type, objtype, objid, reftype, refid, adr) ==
  LET prs == TypePairs(objtype, reftype)
      otd == objtype_data(dd)
      Xmat(pr)    == LET idxt == PairMask(objtype, reftype, pr)
                     IN  [k \in 1..Len(idxt) |-> At0(otd[pr[1]][2], Take(objid, idxt)[k])]
      One(pr) ==
        LET idxt     == PairMask(objtype, reftype, pr)
            refidt   == Take(refid, idxt)
            xmat     == Xmat(pr)
            xmat_ref == [k \in 1..Len(idxt) |-> At0(otd[pr[2]][2], refidt[k])]
            sensor   == [k \in 1..Len(idxt) |->
                           _frameaxis(xmat[k], xmat_ref[k], refidt[k], frame_axis[sensor_type])]
        IN  Added(Expand(Take(adr, idxt), 3),
                  Concat([k \in 1..Len(idxt) |-> Flat(sensor[k])]))
  IN  IF \E i \in 1..Len(prs) : prs[i][1] \notin DOMAIN otd \/ prs[i][2] \notin DOMAIN otd
      THEN Raised
      ELSE IF \E i \in 1..Len(prs) : \E k \in 1..Len(Xmat(prs[i])) : Rank(Xmat(prs[i])[k]) # 2
      THEN Raised
      ELSE Added(Concat([i \in 1..Len(prs) |-> One(prs[i]).adrs]),
                 Concat([i \in 1..Len(prs) |-> One(prs[i]).sensors]))

\* the FRAMEQUAT branch
FrameQuatKernel(mm, dd, objtype, objid, reftype, refid, adr) ==
  LET prs == TypePairs(objtype, reftype)
      Quat(pr)    == _quat(mm, dd, pr[1], Take(objid, PairMask(objtype, reftype, pr)))
      RefQuat(pr) == _quat(mm, dd, pr[2], Take(refid, PairMask(objtype, reftype, pr)))
      One(pr) ==
        LET idxt    == PairMask(objtype, reftype, pr)
            refidt  == Take(refid, idxt)
            quat    == Quat(pr).quat
            refquat == RefQuat(pr).quat
            sensor  == [k \in 1..Len(idxt) |->
                          IF refidt[k] = -1 THEN quat[k]
                          ELSE quat_mul(quat_inv(refquat[k]), quat[k])]
        IN  Added(Expand(Take(adr, idxt), 4),
                  Concat([k \in 1..Len(idxt) |-> [j \in 1..4 |-> Q(sensor[k][j])]]))
  IN  IF \E i \in 1..Len(prs) : Quat(prs[i]).raised \/ RefQuat(prs[i]).raised
      THEN Raised
      ELSE Added(Concat([i \in 1..Len(prs) |-> One(prs[i]).adrs]),
                 Concat([i \in 1..Len(prs) |-> One(prs[i]).sensors]))

\* the RANGEFINDER branch: one pass per body owning a site
RangefinderKernel(mm, dd, objid, adr) ==
  LET site_bodyid == [k \in 1..Len(objid) |-> At0(mm.site_bodyid, objid[k])]
      sids == Distinct(site_bodyid)
      One(sid) ==
        LET idxs      == Asc({k \in 1..Len(objid) : site_bodyid[k] = sid})
            objids    == Take(objid, idxs)
            site_xpos == [k \in 1..Len(idxs) |-> At0(dd.site_xpos, objids[k])]
            site_mat  == [k \in 1..Len(idxs) |->
                            ArrCol(M33(At0(dd.site_xmat, objids[k])), 2).data]
        IN  Added(Take(adr, idxs),
                  [k \in 1..Len(idxs) |-> ray(site_xpos[k], site_mat[k], sid)])
  IN  Added(Concat([i \in 1..Len(sids) |-> One(sids[i]).adrs]),
            Concat([i \in 1..Len(sids) |-> One(sids[i]).sensors]))

\* the CAMPROJECTION branch
CamProjectionKernel(mm, dd, objid, refid, adr) ==
  LET sensorsize  == [k \in 1..Len(refid) |-> At0(mm.cam_sensorsize, refid[k])]
      intrinsic   == [k \in 1..Len(refid) |-> At0(mm.cam_intrinsic, refid[k])]
      fovy        == [k \in 1..Len(refid) |-> At0(mm.cam_fovy, refid[k])]
      res         == [k \in 1..Len(refid) |-> At0(mm.cam_resolution, refid[k])]
      focal_flag  == [k \in 1..Len(refid) |-> sensorsize[k][1] # 0 /\ sensorsize[k][2] # 0]
      target_xpos == [k \in 1..Len(refid) |-> At0(dd.site_xpos, objid[k])]
      xpos        == [k \in 1..Len(refid) |-> At0(dd.cam_xpos, refid[k])]
      xmat        == [k \in 1..Len(refid) |-> At0(dd.cam_xmat, refid[k])]
  IN  Added(Expand(adr, 2),
            Concat([k \in 1..Len(refid) |->
               _cam_project(target_xpos[k], xpos[k], xmat[k], res[k], fovy[k],
                            intrinsic[k], sensorsize[k], focal_flag[k])]))

\* one pass of the loop of sensor_pos over the sensor types of the stage
PosKernel(mm, dd, sensor_type) ==
  LET idx     == TypeMask(mm, sensor_type)
      objid   == Take(mm.sensor_objid, idx)
      objtype == Take(mm.sensor_objtype, idx)
      refid   == Take(mm.sensor_refid, idx)
      reftype == Take(mm.sensor_reftype, idx)
      adr     == Take(mm.sensor_adr, idx)
  IN  CASE sensor_type = "MAGNETOMETER" ->
             Added(Expand(adr, 3),
                   Concat([k \in 1..Len(idx) |->
                      Flat(ArrMatMul(ArrT(M33(At0(dd.site_xmat, objid[k]))),
                                     V3(mm.opt.magnetic)))]))
        [] sensor_type = "CAMPROJECTION" -> CamProjectionKernel(mm, dd, objid, refid, adr)
        [] sensor_type = "RANGEFINDER" -> RangefinderKernel(mm, dd, objid, adr)
        [] sensor_type = "JOINTPOS" ->
             Added(adr, [k \in 1..Len(idx) |->
                           Q(At0(dd.qpos, At0(mm.jnt_qposadr, objid[k])))])
        [] sensor_type = "ACTUATORPOS" ->
             Added(adr, [k \in 1..Len(idx) |-> Q(At0(dd.actuator_length, objid[k]))])
        [] sensor_type = "BALLQUAT" ->
             Added(Expand(adr, 4),
                   Concat([k \in 1..Len(idx) |->
                      normalize([j \in 1..4 |->
                         At0(dd.qpos, At0(mm.jnt_qposadr, objid[k]) + j - 1)])]))
        [] sensor_type = "FRAMEPOS" ->
             FramePosKernel(mm, dd, objtype, objid, reftype, refid, adr)
        [] sensor_type \in DOMAIN frame_axis ->
             FrameAxisKernel(mm, dd, sensor_type, objtype, objid, reftype, refid, adr)
        [] sensor_type = "FRAMEQUAT" ->
             FrameQuatKernel(mm, dd, objtype, objid, reftype, refid, adr)
        [] sensor_type = "SUBTREECOM" ->
             Added(Expand(adr, 3),
                   Concat([k \in 1..Len(idx) |-> Flat(V3(At0(dd.subtree_com, objid[k])))]))
        [] sensor_type = "CLOCK" ->
             Added(adr, [k \in 1..Len(idx) |-> Q(dd.time)])
        [] OTHER -> Added(<<>>, <<>>)

\* VelKernel with the joint velocity branch under the joint position tag
VelKernelWrongTag(mm, dd, sensor_type) ==
  LET idx   == TypeMask(mm, sensor_type)
      objid == Take(mm.sensor_objid, idx)
      adr   == Take(mm.sensor_adr, idx)
  IN  CASE sensor_type = "JOINTPOS" ->
             Added(adr, [k \in 1..Len(idx) |->
                           Q(At0(dd.qvel, At0(mm.jnt_dofadr, objid[k])))])
        [] sensor_type = "ACTUATORVEL" ->
             Added(adr, [k \in 1..Len(idx) |-> Q(At0(dd.actuator_velocity, objid[k]))])
        [] sensor_type = "BALLANGVEL" ->
             Added(Expand(adr, 3),
                   Concat([k \in 1..Len(idx) |-> [j \in 1..3 |->
                      Q(At0(dd.qvel, At0(mm.jnt_dofadr, objid[k]) + j - 1))]]))
        [] OTHER -> Added(<<>>, <<>>)

\* one pass of the loop of sensor_vel
VelKernel(mm, dd, sensor_type) ==
  LET idx   == TypeMask(mm, sensor_type)
      objid == Take(mm.sensor_objid, idx)
      adr   == Take(mm.sensor_adr, idx)
  IN  CASE sensor_type = "JOINTVEL" ->
             Added(adr, [k \in 1..Len(idx) |->
                           Q(At0(dd.qvel, At0(mm.jnt_dofadr, objid[k])))])
        [] sensor_type = "ACTUATORVEL" ->
             Added(adr, [k \in 1..Len(idx) |-> Q(At0(dd.actuator_velocity, objid[k]))])
        [] sensor_type = "BALLANGVEL" ->
             Added(Expand(adr, 3),
                   Concat([k \in 1..Len(idx) |-> [j \in 1..3 |->
                      Q(At0(dd.qvel, At0(mm.jnt_dofadr, objid[k]) + j - 1))]]))
        [] OTHER -> Added(<<>>, <<>>)

\* AccKernel without the continue of the unsupported branch: zeros are appended
AccKernelNoSkip(mm, dd, sensor_type) ==
  LET idx   == TypeMask(mm, sensor_type)
      objid == Take(mm.sensor_objid, idx)
      adr   == Take(mm.sensor_adr, idx)
  IN  CASE sensor_type = "ACTUATORFRC" ->
             Added(adr, [k \in 1..Len(idx) |-> Q(At0(dd.actuator_force, objid[k]))])
        [] sensor_type = "JOINTACTFRC" ->
             Added(adr, [k \in 1..Len(idx) |->
                           Q(At0(dd.qfrc_actuator, At0(mm.jnt_dofadr, objid[k])))])
        [] OTHER -> Added(adr, [k \in 1..Len(idx) |-> Q(0)])

\* one pass of the loop of sensor_acc
AccKernel(mm, dd, sensor_type) ==
  LET idx   == TypeMask(mm, sensor_type)
      objid == Take(mm.sensor_objid, idx)
      adr   == Take(mm.sensor_adr, idx)
  IN  CASE sensor_type = "ACTUATORFRC" ->
             Added(adr, [k \in 1..Len(idx) |-> Q(At0(dd.actuator_force, objid[k]))])
        [] sensor_type = "JOINTACTFRC" ->
             Added(adr, [k \in 1..Len(idx) |->
                           Q(At0(dd.qfrc_actuator, At0(mm.jnt_dofadr, objid[k])))])
        [] OTHER -> Added(<<>>, <<>>)

\* what a stage function gives back: the Data it returns and the lists it
\* scattered, or raised = TRUE when it raises instead of returning
Returned(dd, adr, sensor) == [raised |-> FALSE, d |-> dd, adrs |-> adr, sensors |-> sensor]

Failed(dd) == [raised |-> TRUE, d |-> dd, adrs |-> <<>>, sensors |-> <<>>]

\* ScatterSet accumulating instead of overwriting: sensordata.at[adrs].add(sensors)
ScatterAdd(sensordata, adrs, sensors) ==
  [k \in 1..Len(sensordata) |->
     IF \E i \in 1..Len(adrs) : adrs[i] = k - 1
     THEN LET i == CHOOSE i \in 1..Len(adrs) : adrs[i] = k - 1
              v == IF Len(sensors) = 1 THEN sensors[1] ELSE sensors[i]
          IN  <<sensordata[k][1] * v[2] + v[1] * sensordata[k][2], sensordata[k][2] * v[2]>>
     ELSE sensordata[k]]

\* sensordata.at[adrs].set(sensors): an address outside the buffer is dropped
ScatterSet(sensordata, adrs, sensors) ==
  [k \in 1..Len(sensordata) |->
     IF \E i \in 1..Len(adrs) : adrs[i] = k - 1
     THEN LET i == CHOOSE i \in 1..Len(adrs) :
                     adrs[i] = k - 1 /\ \A j \in 1..Len(adrs) : adrs[j] = k - 1 => j <= i
          IN  IF Len(sensors) = 1 THEN sensors[1] ELSE sensors[i]
     ELSE sensordata[k]]

\* the tail of a stage function: nothing to write, or one scatter
Finish(dd, ks) ==
  LET adrs    == Concat([i \in 1..Len(ks) |-> ks[i].adrs])
      sensors == Concat([i \in 1..Len(ks) |-> ks[i].sensors])
  IN  IF \E i \in 1..Len(ks) : ks[i].raised THEN Failed(dd)
      ELSE IF adrs = <<>> THEN Returned(dd, <<>>, <<>>)
      ELSE IF Len(sensors) # Len(adrs) /\ Len(sensors) # 1 THEN Failed(dd)
      ELSE Returned([dd EXCEPT !.sensordata = ScatterSet(dd.sensordata, adrs, sensors)],
                    adrs, sensors)

\* the sensor types a stage loops over: set(m.sensor_type[stage])
StageTypes(mm, stage) == Distinct(Take(mm.sensor_type, StageMask(mm, stage)))

\* SensorDisabled without the test of the flag
SensorDisabledNever(mm) == FALSE

\* m.opt.disableflags & DisableBit.SENSOR
SensorDisabled(mm) == "SENSOR" \in mm.opt.disableflags

sensor_pos(mm, dd) ==
  IF SensorDisabled(mm) THEN Returned(dd, <<>>, <<>>)
  ELSE LET types == StageTypes(mm, "POS")
       IN  Finish(dd, [i \in 1..Len(types) |-> PosKernel(mm, dd, types[i])])

sensor_vel(mm, dd) ==
  IF SensorDisabled(mm) THEN Returned(dd, <<>>, <<>>)
  ELSE LET types == StageTypes(mm, "VEL")
       IN  Finish(dd, [i \in 1..Len(types) |-> VelKernel(mm, dd, types[i])])

sensor_acc(mm, dd) ==
  IF SensorDisabled(mm) THEN Returned(dd, <<>>, <<>>)
  ELSE LET types == StageTypes(mm, "ACC")
       IN  Finish(dd, [i \in 1..Len(types) |-> AccKernel(mm, dd, types[i])])

(***************************************************************************)
(* The state machine: a model and the Data of one step, on which the       *)
(* caller invokes the stage functions in any order, any number of times.   *)
(* d0 is the Data the step started from; status is "error" once a call has *)
(* raised; called is the set of stages that have returned, last the stage  *)
(* invoked last and prev the one invoked before it, written[s] the         *)
(* addresses the calls of stage s have scattered to, and scat the lists    *)
(* (adrs, sensors) of the last call that returned.                         *)
(***************************************************************************)
\* the inputs of a step: the disable flags, the height of site 0 and the
\* value the sensor buffer holds before the step
Variants == { <<{}, 1, 0>>, <<{}, -1, 9>>, <<{"SENSOR"}, 1, 9>> }

Init ==
  \E start \in 1..Len(Catalogue), stride \in 1..(Len(Catalogue) - 1),
     n \in 1..MaxSensors, v \in Variants :
    LET sens == Pick(start, stride, n)
    IN  /\ m = MakeModel(sens, v[1])
        /\ d = MakeData(sens, v[2], v[3])
        /\ d0 = MakeData(sens, v[2], v[3])
        /\ prev = "none"
        /\ status = "ok"
        /\ called = {}
        /\ last = "none"
        /\ written = [s \in Stages |-> {}]
        /\ scat = [adrs |-> <<>>, sensors |-> <<>>]

\* the caller invokes the stage function of stage s, which gives back r
Call(s, r) ==
  /\ status = "ok"
  /\ last' = s
  /\ prev' = last
  /\ UNCHANGED <<m, d0>>
  /\ IF r.raised
     THEN /\ status' = "error"
          /\ UNCHANGED <<d, called, written, scat>>
     ELSE /\ status' = "ok"
          /\ d' = r.d
          /\ called' = called \cup {s}
          /\ written' = [written EXCEPT ![s] = @ \cup Range(r.adrs)]
          /\ scat' = [adrs |-> r.adrs, sensors |-> r.sensors]

SensorPos == Call("POS", sensor_pos(m, d))

SensorVel == Call("VEL", sensor_vel(m, d))

SensorAcc == Call("ACC", sensor_acc(m, d))

Next == SensorPos \/ SensorVel \/ SensorAcc

Spec == Init /\ [][Next]_vars

(***************************************************************************)
(* Vocabulary of the properties.                                           *)
(***************************************************************************)
NSens == Len(m.sensor_type)

\* the declared range [address, address + width) of sensor i
SensorRange(i) == {m.sensor_adr[i] + j : j \in 0..(m.sensor_dim[i] - 1)}

Declared == UNION {SensorRange(i) : i \in 1..NSens}

\* model compilation lays the sensors out without overlap
NonOverlap ==
  \A i, j \in 1..NSens : i # j => SensorRange(i) \cap SensorRange(j) = {}

\* the sensor types each stage function has a kernel for
KernelTypes(s) ==
  CASE s = "POS" -> {"MAGNETOMETER", "CAMPROJECTION", "RANGEFINDER", "JOINTPOS",
                     "ACTUATORPOS", "BALLQUAT", "FRAMEPOS", "FRAMEXAXIS", "FRAMEYAXIS",
                     "FRAMEZAXIS", "FRAMEQUAT", "SUBTREECOM", "CLOCK"}
    [] s = "VEL" -> {"JOINTVEL", "ACTUATORVEL", "BALLANGVEL"}
    [] s = "ACC" -> {"ACTUATORFRC", "JOINTACTFRC"}
    [] OTHER -> {}

FlagSet == "SENSOR" \in m.opt.disableflags

\* the type of sensor i is one of the types stage s loops over
Selected(i, s) ==
  \E j \in 1..NSens : m.sensor_needstage[j] = s /\ m.sensor_type[j] = m.sensor_type[i]

\* a call of stage s runs a kernel on sensor i
Processed(i, s) ==
  ~FlagSet /\ Selected(i, s) /\ m.sensor_type[i] \in KernelTypes(s)

\* the buffer entries at the addresses of sensor i
Values(sd, i) == [j \in 1..m.sensor_dim[i] |-> sd[m.sensor_adr[i] + j]]

(***************************************************************************)
(* C1.  A call of one stage function changes the sensor buffer only at     *)
(* addresses of sensors whose needed stage is the invoked stage; the range *)
(* of every sensor of another stage is left as it was.                     *)
(* The loop of a stage function draws its sensor types from the sensors    *)
(* of the stage, but then takes every sensor of such a type: this fails    *)
(* for a model that declares one sensor type under two stages.             *)
(***************************************************************************)
C1_OnlyInvokedStageChanges ==
  [][\A a \in 1..Len(d.sensordata) :
        d'.sensordata[a] # d.sensordata[a] =>
          \E i \in 1..NSens : m.sensor_needstage[i] = last' /\ (a - 1) \in SensorRange(i)]_vars

(***************************************************************************)
(* C2.  As claimed: once the three stage functions have each returned, the *)
(* addresses they wrote are exactly the declared sensor ranges.            *)
(* (Fails: a sensor type without a kernel is skipped, and nothing is       *)
(* written with the sensor-disable flag set.)                              *)
(***************************************************************************)
Written == written["POS"] \cup written["VEL"] \cup written["ACC"]

C2_WrittenIsDeclared_Original ==
  called = Stages => Written = Declared

\* every sensor's type has a kernel in the stage function of its needed stage
AllKernelled ==
  \A i \in 1..NSens : m.sensor_type[i] \in KernelTypes(m.sensor_needstage[i])

(***************************************************************************)
(* C2, amended.  With the sensor-disable flag clear and every sensor's     *)
(* type having a kernel in the stage function of its needed stage: once    *)
(* the three stage functions have each returned, the union of the          *)
(* addresses they wrote is exactly the union of the declared ranges.       *)
(***************************************************************************)
C2_WrittenIsDeclared ==
  (called = Stages /\ ~FlagSet /\ AllKernelled) => Written = Declared

\* all three stages have run on a model with a sensor in each stage
C2_Witness ==
  /\ called = Stages /\ ~FlagSet /\ AllKernelled
  /\ \A s \in Stages : \E i \in 1..NSens : m.sensor_needstage[i] = s
  /\ Written = Declared

(***************************************************************************)
(* C3.  With the sensor-disable flag set, a call of any stage function     *)
(* returns its input: no field of the Data changes, the sensor buffer      *)
(* included, and the call does not raise.                                  *)
(***************************************************************************)
C3_DisabledIsIdentity ==
  [][FlagSet => (d' = d /\ status' = "ok")]_vars

\* the three stage functions have been called with the flag set, on a model
\* whose sensors would otherwise be written
C3_Witness ==
  /\ FlagSet /\ called = Stages /\ NSens = MaxSensors
  /\ \A i \in 1..NSens : m.sensor_type[i] \in KernelTypes(m.sensor_needstage[i])
  /\ d = d0

(***************************************************************************)
(* C4.  Whatever the order in which the three stage functions are run on   *)
(* a step, the final sensor buffer is the one the order position,          *)
(* velocity, acceleration gives, and no address is written by two          *)
(* different stage functions.                                              *)
(***************************************************************************)
InOrder(dd) == sensor_acc(m, sensor_vel(m, sensor_pos(m, dd).d).d).d

C4_OrderIndependent ==
  called = Stages =>
    /\ d = InOrder(d0)
    /\ \A s, t \in Stages : s # t => written[s] \cap written[t] = {}

\* the order velocity, acceleration, position has run, each stage writing
C4_Witness ==
  /\ called = Stages /\ last = "POS" /\ prev = "ACC"
  /\ \A s \in Stages : written[s] # {}

(***************************************************************************)
(* C5.  Each stage function is idempotent: called again on the state it    *)
(* has just returned, it returns that state unchanged; and a call changes  *)
(* no field of the Data other than the sensor buffer.                      *)
(***************************************************************************)
C5_Idempotent ==
  [][/\ \A f \in DOMAIN d \ {"sensordata"} : d'[f] = d[f]
     /\ last' = last => (d' = d /\ status' = "ok")]_vars

\* a stage that writes sensors has been called twice in a row
C5_Witness ==
  /\ last \in Stages /\ prev = last /\ status = "ok"
  /\ scat.adrs # <<>> /\ d # d0

(***************************************************************************)
(* C6.  A sensor whose type has no kernel in the invoked stage function is *)
(* skipped: no address of it is in the scatter list and its buffer entries *)
(* keep their values, the sensors of the stage that have a kernel are      *)
(* still written, and the call raises only for a frame sensor with an      *)
(* unresolvable object type; when no sensor selected for the stage has a   *)
(* kernel (or none is selected) the call returns its input unchanged.      *)
(***************************************************************************)
FrameTypes == {"FRAMEPOS", "FRAMEXAXIS", "FRAMEYAXIS", "FRAMEZAXIS", "FRAMEQUAT"}

Recognized == {"UNKNOWN", "BODY", "XBODY", "GEOM", "SITE", "CAMERA"}

\* a frame sensor whose object type or reference type cannot be resolved
BadFrame(i) ==
  /\ m.sensor_type[i] \in FrameTypes
  /\ m.sensor_objtype[i] \notin Recognized \/ m.sensor_reftype[i] \notin Recognized

C6_UnsupportedSkipped ==
  [][/\ status' = "ok" =>
          \A i \in 1..NSens :
             IF m.sensor_type[i] \notin KernelTypes(last')
             THEN /\ SensorRange(i) \cap Range(scat'.adrs) = {}
                  /\ Values(d'.sensordata, i) = Values(d.sensordata, i)
             ELSE Processed(i, last') => SensorRange(i) \subseteq Range(scat'.adrs)
     /\ status' = "error" =>
          last' = "POS" /\ \E i \in 1..NSens : BadFrame(i) /\ Processed(i, "POS")
     /\ (\A i \in 1..NSens : ~Processed(i, last')) => (d' = d /\ status' = "ok")]_vars

\* the last call skipped a sensor of its own stage and wrote another one
C6_Witness ==
  /\ status = "ok" /\ last \in Stages /\ ~FlagSet
  /\ \E i, j \in 1..NSens :
       /\ m.sensor_needstage[i] = last /\ m.sensor_type[i] \notin KernelTypes(last)
       /\ SensorRange(i) \cap written[last] = {}
       /\ Values(d.sensordata, i) = Values(d0.sensordata, i)
       /\ Processed(j, last) /\ SensorRange(j) \subseteq Range(scat.adrs)

(***************************************************************************)
(* C7.  A call of sensor_pos that processes a frame-position, frame-axis   *)
(* or frame-quaternion sensor whose object type or reference type is       *)
(* outside the recognized set raises and returns no state, so the sensor   *)
(* buffer keeps the values it had; also when the reference id is -1.       *)
(***************************************************************************)
C7_UnknownObjTypeFails ==
  [][(last' = "POS" /\ \E i \in 1..NSens : BadFrame(i) /\ Processed(i, "POS"))
       => (status' = "error" /\ d' = d /\ called' = called)]_vars

\* sensor_pos has raised for a reference type outside the set, reference id -1
C7_Witness ==
  /\ status = "error" /\ last = "POS"
  /\ \E i \in 1..NSens :
       /\ BadFrame(i) /\ Processed(i, "POS")
       /\ m.sensor_objtype[i] \in Recognized /\ m.sensor_refid[i] = -1

(***************************************************************************)
(* C8.  Once sensor_pos has returned, the three buffer entries of every    *)
(* frame-position sensor it processed are the object's world position p    *)
(* when the reference id is -1 and transpose(R_ref) * (p - p_ref)          *)
(* otherwise, p read from the array of the object type at the object id,   *)
(* p_ref and R_ref from the arrays of the reference type at the reference  *)
(* id; a sensor whose reference is its own object gets the zero vector.    *)
(***************************************************************************)
PosArray(ot) ==
  CASE ot = "BODY" -> d.xipos [] ot = "XBODY" -> d.xpos [] ot = "GEOM" -> d.geom_xpos
    [] ot = "SITE" -> d.site_xpos [] ot = "CAMERA" -> d.cam_xpos

MatArray(ot) ==
  CASE ot = "BODY" -> d.ximat [] ot = "XBODY" -> d.xmat [] ot = "GEOM" -> d.geom_xmat
    [] ot = "SITE" -> d.site_xmat [] ot = "CAMERA" -> d.cam_xmat

FramePosExpected(i) ==
  LET p == At0(PosArray(m.sensor_objtype[i]), m.sensor_objid[i])
  IN  IF m.sensor_refid[i] = -1 THEN p
      ELSE LET pr == At0(PosArray(m.sensor_reftype[i]), m.sensor_refid[i])
               R  == At0(MatArray(m.sensor_reftype[i]), m.sensor_refid[i])
           IN  [c \in 1..3 |-> R[1][c] * (p[1] - pr[1]) + R[2][c] * (p[2] - pr[2])
                              + R[3][c] * (p[3] - pr[3])]

C8_FramePosValue ==
  "POS" \in called =>
    \A i \in 1..NSens :
      (m.sensor_type[i] = "FRAMEPOS" /\ Processed(i, "POS")) =>
        /\ Values(d.sensordata, i) = [c \in 1..3 |-> Q(FramePosExpected(i)[c])]
        /\ (m.sensor_reftype[i] = m.sensor_objtype[i] /\ m.sensor_refid[i] = m.sensor_objid[i])
             => Values(d.sensordata, i) = <<Q(0), Q(0), Q(0)>>

\* sensor_pos has written a frame position relative to another, rotated frame
C8_Witness ==
  /\ "POS" \in called
  /\ \E i \in 1..NSens :
       /\ m.sensor_type[i] = "FRAMEPOS" /\ Processed(i, "POS")
       /\ m.sensor_refid[i] # -1 /\ m.sensor_reftype[i] # m.sensor_objtype[i]
       /\ Values(d.sensordata, i) # [c \in 1..3 |-> Q(At0(PosArray(m.sensor_objtype[i]), m.sensor_objid[i])[c])]
       /\ Values(d.sensordata, i) # Values(d0.sensordata, i)

(***************************************************************************)
(* C9.  In a call that returns, the scatter list holds, for each sensor    *)
(* the call processes, exactly the addresses adr .. adr + width - 1 of     *)
(* that sensor, each once and paired with that sensor's own component (the *)
(* value the stage function computes for the sensor alone); the list holds *)
(* as many values as addresses and no address twice; and a call raises     *)
(* only for a frame sensor with an unresolvable object type.  Sensors      *)
(* split by (object type, reference type) and rangefinders split by body   *)
(* are covered: each falls in exactly one sub-group.                       *)
(***************************************************************************)
StageFn(s, mm, dd) ==
  CASE s = "POS" -> sensor_pos(mm, dd)
    [] s = "VEL" -> sensor_vel(mm, dd)
    [] s = "ACC" -> sensor_acc(mm, dd)

\* the values stage s computes for sensor i in a model that declares it alone
Solo(i, s) ==
  StageFn(s, [m EXCEPT !.sensor_type = <<@[i]>>, !.sensor_needstage = <<s>>,
                       !.sensor_objtype = <<@[i]>>, !.sensor_objid = <<@[i]>>,
                       !.sensor_reftype = <<@[i]>>, !.sensor_refid = <<@[i]>>,
                       !.sensor_dim = <<@[i]>>, !.sensor_adr = <<0>>], d).sensors

\* the values the scatter list pairs with the addresses of sensor i
Paired(i) ==
  [c \in 1..m.sensor_dim[i] |->
     scat.sensors[CHOOSE p \in 1..Len(scat.adrs) : scat.adrs[p] = m.sensor_adr[i] + c - 1]]

C9_ScatterList ==
  /\ (status = "ok" /\ last \in Stages) =>
       /\ Len(scat.adrs) = Len(scat.sensors)
       /\ \A p, q \in 1..Len(scat.adrs) : p # q => scat.adrs[p] # scat.adrs[q]
       /\ Range(scat.adrs) = UNION {SensorRange(i) : i \in {j \in 1..NSens : Processed(j, last)}}
       /\ \A i \in 1..NSens : Processed(i, last) => Paired(i) = Solo(i, last)
  /\ status = "error" =>
       last = "POS" /\ \E i \in 1..NSens : BadFrame(i) /\ Processed(i, "POS")

\* frame sensors of two (object type, reference type) pairs in one call
C9_WitnessPairs ==
  /\ status = "ok" /\ last = "POS"
  /\ \E i, j \in 1..NSens :
       /\ m.sensor_type[i] = "FRAMEPOS" /\ m.sensor_type[j] = "FRAMEPOS"
       /\ m.sensor_reftype[i] # m.sensor_reftype[j]
       /\ Processed(i, "POS") /\ Processed(j, "POS")
       /\ SensorRange(i) \cup SensorRange(j) \subseteq Range(scat.adrs)

(***************************************************************************)
(* C10.  The denominator the camera projection divides by has magnitude at *)
(* least mjMINVAL: a third homogeneous component of smaller magnitude is   *)
(* clamped to the floor, its sign kept.                                    *)
(* The kernel clips the component to [-mjMINVAL, mjMINVAL] only when it    *)
(* already lies inside that interval, which leaves it as it is.            *)
(***************************************************************************)
C10_DenominatorFloor ==
  "POS" \in called =>
    \A i \in 1..NSens :
      (m.sensor_type[i] = "CAMPROJECTION" /\ Processed(i, "POS")) =>
        \A c \in 1..2 : Abs(Values(d.sensordata, i)[c][2]) >= mjMINVAL

====
